---------------------------- MODULE Spec2Model ----------------------------
(***************************************************************************)
(* A model of the stadium-calendars pipeline (src/src/sources.py,          *)
(* src/src/ics.py, src/src/build_calendars.py).                            *)
(*                                                                         *)
(* Text is a sequence of one-character strings, so that substring tests,   *)
(* lowercasing, joining, escaping and date parsing are computed.  A        *)
(* datetime is a record [wall, off, aware]: wall-clock minutes since       *)
(* 2000-01-01T00:00, the UTC offset in minutes, and whether it carries a   *)
(* tzinfo at all.  A rendered timestamp (isoformat, strftime) is the       *)
(* decimal text of the minute count it denotes.                            *)
(***************************************************************************)
EXTENDS Integers, Sequences, FiniteSets, TLC

VARIABLES
  \* ---- _get (sources.py) ----
  gpc,        \* "idle" | "request" | "done" | "raised"
  gurl,       \* the url argument
  attempt,    \* the loop variable of range(2)
  glog,       \* what the call did: requests issued, warnings printed, sleeps
  gret,       \* the value returned
  \* ---- _events_from_fixtures (sources.py) ----
  fpc,        \* "idle" | "scan" | "done"
  text_lines, \* the non-empty stripped lines of the page
  img_alts,   \* alt texts of the page's images
  fi,         \* the cursor i (0-based, as in the code)
  fevents,    \* events emitted so far
  fhist,      \* cursor positions visited, in order (history)
  \* ---- _events_from_jsonld (sources.py) ----
  jpc,        \* "idle" | "scan" | "done"
  jscripts,   \* the decoded ld+json scripts of the page
  jk,         \* how many scripts have been handled
  jevents,    \* events emitted so far
  \* ---- build (build_calendars.py) ----
  bpc,        \* "idle" | "fetch" | "assemble" | "write" | "done" | "raised"
  bexc,       \* the exception build() ended with, or "none"
  bs,         \* 0-based position in SOURCES (fetch, assemble) or CalendarOrder (write)
  be,         \* 0-based position in the current source's events
  fetched,    \* all_events_by_source, in insertion order
  buckets,    \* events_by_stadium
  outfiles,   \* the text written for each calendar (NoneVal: not written)
  \* ---- _should_include_event (build_calendars.py) ----
  qpc, qsource, qtitle, qres,
  \* ---- Event.uid (ics.py) ----
  upc, ue1, ue2, uid1, uid2,
  \* ---- build_ics (ics.py) ----
  ipc,        \* "idle" | "first" | "second" | "done"
  iname,      \* calendar_name
  ievents,    \* events
  clock,      \* the UTC clock, in minutes
  iout1,      \* what the first call returned
  iout2       \* what the second call returned

getVars == <<gpc, gurl, attempt, glog, gret>>
fixVars == <<fpc, text_lines, img_alts, fi, fevents, fhist>>
jsonVars == <<jpc, jscripts, jk, jevents>>
buildVars == <<bpc, bexc, bs, be, fetched, buckets, outfiles>>
filterVars == <<qpc, qsource, qtitle, qres>>
uidVars == <<upc, ue1, ue2, uid1, uid2>>
icsVars == <<ipc, iname, ievents, clock, iout1, iout2>>
vars == <<getVars, fixVars, jsonVars, buildVars, filterVars, uidVars, icsVars>>

notGet == <<fixVars, jsonVars, buildVars, filterVars, uidVars, icsVars>>
notFix == <<getVars, jsonVars, buildVars, filterVars, uidVars, icsVars>>
notJson == <<getVars, fixVars, buildVars, filterVars, uidVars, icsVars>>
notBuild == <<getVars, fixVars, jsonVars, filterVars, uidVars, icsVars>>
notFilter == <<getVars, fixVars, jsonVars, buildVars, uidVars, icsVars>>
notUid == <<getVars, fixVars, jsonVars, buildVars, filterVars, icsVars>>
notIcsButClock == <<getVars, fixVars, jsonVars, buildVars, filterVars, uidVars>>

-----------------------------------------------------------------------------
(* Text *)

Empty == << >>
\* Python's None where a text is expected: no text has a four-letter character
NoneVal == <<"None">>

UpperChars ==
  <<"A", "B", "C", "D", "E", "F", "G", "H", "I", "J", "K", "L", "M",
    "N", "O", "P", "Q", "R", "S", "T", "U", "V", "W", "X", "Y", "Z">>
LowerChars ==
  <<"a", "b", "c", "d", "e", "f", "g", "h", "i", "j", "k", "l", "m",
    "n", "o", "p", "q", "r", "s", "t", "u", "v", "w", "x", "y", "z">>
DigitChars == <<"0", "1", "2", "3", "4", "5", "6", "7", "8", "9">>

Range(f) == { f[k] : k \in DOMAIN f }
Min(a, b) == IF a < b THEN a ELSE b
Max(a, b) == IF a > b THEN a ELSE b

\* str.lower(), one character
LowerChar(c) ==
  IF c \in Range(UpperChars)
    THEN LowerChars[CHOOSE k \in DOMAIN UpperChars : UpperChars[k] = c]
    ELSE c

\* str.lower()
Lower(s) == [k \in DOMAIN s |-> LowerChar(s[k])]

\* Python's `sub in s`
Contains(s, sub) ==
  \E k \in 0..(Len(s) - Len(sub)) : SubSeq(s, k + 1, k + Len(sub)) = sub

RECURSIVE JoinWith(_, _)
\* sep.join(parts)
JoinWith(sep, parts) ==
  IF parts = << >> THEN << >>
  ELSE IF Len(parts) = 1 THEN parts[1]
  ELSE parts[1] \o sep \o JoinWith(sep, Tail(parts))

\* Python's seq[a:b] for 0 <= a, b
Slice(seq, a, b) == SubSeq(seq, a + 1, Min(b, Len(seq)))

RECURSIVE SplitAcc(_, _, _)
SplitAcc(s, cur, acc) ==
  IF s = << >> THEN (IF cur = << >> THEN acc ELSE Append(acc, cur))
  ELSE IF Head(s) = " "
    THEN SplitAcc(Tail(s), << >>, IF cur = << >> THEN acc ELSE Append(acc, cur))
  ELSE SplitAcc(Tail(s), Append(cur, Head(s)), acc)

\* the whitespace-separated tokens of s
SplitWs(s) == SplitAcc(s, << >>, << >>)

IsDigit(c) == c \in Range(DigitChars)
DigitVal(c) == (CHOOSE k \in DOMAIN DigitChars : DigitChars[k] = c) - 1

RECURSIVE Num(_)
\* int(ds) for a sequence of digits
Num(ds) ==
  IF ds = << >> THEN 0
  ELSE 10 * Num(SubSeq(ds, 1, Len(ds) - 1)) + DigitVal(ds[Len(ds)])

RECURSIVE Dec(_)
\* the decimal text of n >= 0
Dec(n) == IF n < 10 THEN <<DigitChars[n + 1]>>
          ELSE Dec(n \div 10) \o <<DigitChars[(n % 10) + 1]>>

\* the text of an integer with its sign
SignedDec(n) == IF n < 0 THEN <<"-">> \o Dec(0 - n) ELSE <<"+">> \o Dec(n)

\* The literal texts of sources.py
Kw ==
  [
    \* " - "
    sep |-> <<" ", "-", " ">>,
    \* "champions league"
    champions_league |-> <<"c", "h", "a", "m", "p", "i", "o", "n", "s", " ", "l", "e",
      "a", "g", "u", "e">>,
    \* "league cup"
    league_cup |-> <<"l", "e", "a", "g", "u", "e", " ", "c", "u", "p">>,
    \* "fa cup"
    fa_cup |-> <<"f", "a", " ", "c", "u", "p">>,
    \* "Champions League"
    ChampionsLeague |-> <<"C", "h", "a", "m", "p", "i", "o", "n", "s", " ", "L", "e",
      "a", "g", "u", "e">>,
    \* "League Cup"
    LeagueCup |-> <<"L", "e", "a", "g", "u", "e", " ", "C", "u", "p">>,
    \* "FA Cup"
    FaCup |-> <<"F", "A", " ", "C", "u", "p">>,
    \* " ("
    open |-> <<" ", "(">>,
    \* ")"
    close |-> <<")">>,
    \* "fixtur.es"
    fixtur_es |-> <<"f", "i", "x", "t", "u", "r", ".", "e", "s">>,
    \* "Event"
    Event |-> <<"E", "v", "e", "n", "t">> ]

-----------------------------------------------------------------------------
(* Datetimes and the date parser *)

\* the result of a parse that raised
ParseError == [err |-> "ParserError"]
\* Python's None where a datetime is expected
NoDt == [none |-> TRUE]

Aware(w, o) == [wall |-> w, off |-> o, aware |-> TRUE]
Naive(w) == [wall |-> w, off |-> 0, aware |-> FALSE]

\* timedelta(hours=2, minutes=30), in minutes
FixtureDuration == 150

MonthNames ==
  << <<"j", "a", "n">>, <<"f", "e", "b">>, <<"m", "a", "r">>,
     <<"a", "p", "r">>, <<"m", "a", "y">>, <<"j", "u", "n">>,
     <<"j", "u", "l">>, <<"a", "u", "g">>, <<"s", "e", "p">>,
     <<"o", "c", "t">>, <<"n", "o", "v">>, <<"d", "e", "c">> >>

\* 1..12 for a month abbreviation (any case), 0 otherwise
MonthOf(tok) ==
  IF \E m \in DOMAIN MonthNames : MonthNames[m] = Lower(tok)
    THEN CHOOSE m \in DOMAIN MonthNames : MonthNames[m] = Lower(tok)
    ELSE 0

IsLeap(y) == (y % 4 = 0 /\ y % 100 # 0) \/ y % 400 = 0

DaysInMonth(y, m) ==
  IF m = 2 THEN (IF IsLeap(y) THEN 29 ELSE 28)
  ELSE IF m \in {4, 6, 9, 11} THEN 30 ELSE 31

RECURSIVE DaysBeforeMonth(_, _)
DaysBeforeMonth(y, m) ==
  IF m <= 1 THEN 0 ELSE DaysBeforeMonth(y, m - 1) + DaysInMonth(y, m - 1)

LeapsBefore(y) == ((y - 1) \div 4) - ((y - 1) \div 100) + ((y - 1) \div 400)

\* days from 2000-01-01 to y-m-d
DaysFromEpoch(y, m, d) ==
  365 * (y - 2000) + (LeapsBefore(y) - LeapsBefore(2000))
    + DaysBeforeMonth(y, m) + (d - 1)

\* the position of the first ":" in tok (0 if none)
ColonAt(tok) ==
  IF \E k \in DOMAIN tok : tok[k] = ":"
    THEN CHOOSE k \in DOMAIN tok : tok[k] = ":" /\ \A q \in 1..(k - 1) : tok[q] # ":"
    ELSE 0

\* dateutil's parser.parse on the layout "D Mon YYYY HH:MM +HH:MM" (the
\* only layout of date text in the model); anything else, or a date or time
\* out of range, raises ParserError.
DtParse(s) ==
  LET tok == SplitWs(s)
  IN IF Len(tok) # 5 THEN ParseError
     ELSE
       LET dayT == tok[1]
           monT == tok[2]
           yrT == tok[3]
           tmT == tok[4]
           ofT == tok[5]
           c1 == ColonAt(tmT)
           c2 == ColonAt(ofT)
           shaped ==
             /\ dayT # << >> /\ \A k \in DOMAIN dayT : IsDigit(dayT[k])
             /\ Len(yrT) = 4 /\ \A k \in DOMAIN yrT : IsDigit(yrT[k])
             /\ c1 > 1 /\ c1 < Len(tmT)
             /\ \A k \in DOMAIN tmT : k # c1 => IsDigit(tmT[k])
             /\ Len(ofT) = 6 /\ c2 = 4 /\ ofT[1] \in {"+", "-"}
             /\ \A k \in {2, 3, 5, 6} : IsDigit(ofT[k])
       IN IF ~shaped THEN ParseError
          ELSE
            LET d == Num(dayT)
                m == MonthOf(monT)
                y == Num(yrT)
                hh == Num(SubSeq(tmT, 1, c1 - 1))
                mi == Num(SubSeq(tmT, c1 + 1, Len(tmT)))
                oh == Num(SubSeq(ofT, 2, 3))
                om == Num(SubSeq(ofT, 5, 6))
                sign == IF ofT[1] = "-" THEN 0 - 1 ELSE 1
            IN IF m = 0 \/ d < 1 \/ d > DaysInMonth(y, m) \/ hh > 23 \/ mi > 59
                    \/ oh > 23 \/ om > 59
                 THEN ParseError
                 ELSE Aware((DaysFromEpoch(y, m, d) * 24 + hh) * 60 + mi,
                            sign * (oh * 60 + om))

\* dt + timedelta(minutes=n)
PlusMinutes(dt, n) == [dt EXCEPT !.wall = dt.wall + n]

\* the instant of an aware datetime, in UTC minutes
Instant(dt) == dt.wall - dt.off

-----------------------------------------------------------------------------
(* build_calendars.py: the configured sources *)

\* The texts of SOURCES and CALENDAR_NAMES (the en dash of the names is
\* written "-")
Cfg ==
  [
    \* "https://www.wembleystadium.com/experiences/events"
    url_wembley |-> <<"h", "t", "t", "p", "s", ":", "/", "/", "w", "w", "w", ".",
      "w", "e", "m", "b", "l", "e", "y", "s", "t", "a", "d", "i",
      "u", "m", ".", "c", "o", "m", "/", "e", "x", "p", "e", "r",
      "i", "e", "n", "c", "e", "s", "/", "e", "v", "e", "n", "t",
      "s">>,
    \* "https://fixtur.es/en/team/arsenal/home"
    url_arsenal_men |-> <<"h", "t", "t", "p", "s", ":", "/", "/", "f", "i", "x", "t",
      "u", "r", ".", "e", "s", "/", "e", "n", "/", "t", "e", "a",
      "m", "/", "a", "r", "s", "e", "n", "a", "l", "/", "h", "o",
      "m", "e">>,
    \* "https://fixtur.es/en/team/arsenal-women/home"
    url_arsenal_women |-> <<"h", "t", "t", "p", "s", ":", "/", "/", "f", "i", "x", "t",
      "u", "r", ".", "e", "s", "/", "e", "n", "/", "t", "e", "a",
      "m", "/", "a", "r", "s", "e", "n", "a", "l", "-", "w", "o",
      "m", "e", "n", "/", "h", "o", "m", "e">>,
    \* "https://www.arsenal.com/emirates-stadium/events"
    url_emirates |-> <<"h", "t", "t", "p", "s", ":", "/", "/", "w", "w", "w", ".",
      "a", "r", "s", "e", "n", "a", "l", ".", "c", "o", "m", "/",
      "e", "m", "i", "r", "a", "t", "e", "s", "-", "s", "t", "a",
      "d", "i", "u", "m", "/", "e", "v", "e", "n", "t", "s">>,
    \* "https://fixtur.es/en/team/west-ham-united/home"
    url_west_ham |-> <<"h", "t", "t", "p", "s", ":", "/", "/", "f", "i", "x", "t",
      "u", "r", ".", "e", "s", "/", "e", "n", "/", "t", "e", "a",
      "m", "/", "w", "e", "s", "t", "-", "h", "a", "m", "-", "u",
      "n", "i", "t", "e", "d", "/", "h", "o", "m", "e">>,
    \* "https://www.london-stadium.com/events/index.html"
    url_london_stadium |-> <<"h", "t", "t", "p", "s", ":", "/", "/", "w", "w", "w", ".",
      "l", "o", "n", "d", "o", "n", "-", "s", "t", "a", "d", "i",
      "u", "m", ".", "c", "o", "m", "/", "e", "v", "e", "n", "t",
      "s", "/", "i", "n", "d", "e", "x", ".", "h", "t", "m", "l">>,
    \* "Wembley Stadium, London"
    loc_wembley |-> <<"W", "e", "m", "b", "l", "e", "y", " ", "S", "t", "a", "d",
      "i", "u", "m", ",", " ", "L", "o", "n", "d", "o", "n">>,
    \* "Emirates Stadium, London"
    loc_emirates |-> <<"E", "m", "i", "r", "a", "t", "e", "s", " ", "S", "t", "a",
      "d", "i", "u", "m", ",", " ", "L", "o", "n", "d", "o", "n">>,
    \* "London Stadium, London"
    loc_london_stadium |-> <<"L", "o", "n", "d", "o", "n", " ", "S", "t", "a", "d", "i",
      "u", "m", ",", " ", "L", "o", "n", "d", "o", "n">>,
    \* "Wembley Stadium - All Events (Gorilla)"
    name_wembley |-> <<"W", "e", "m", "b", "l", "e", "y", " ", "S", "t", "a", "d",
      "i", "u", "m", " ", "-", " ", "A", "l", "l", " ", "E", "v",
      "e", "n", "t", "s", " ", "(", "G", "o", "r", "i", "l", "l",
      "a", ")">>,
    \* "Emirates Stadium - All Events (Gorilla)"
    name_emirates |-> <<"E", "m", "i", "r", "a", "t", "e", "s", " ", "S", "t", "a",
      "d", "i", "u", "m", " ", "-", " ", "A", "l", "l", " ", "E",
      "v", "e", "n", "t", "s", " ", "(", "G", "o", "r", "i", "l",
      "l", "a", ")">>,
    \* "London Stadium - All Events (Gorilla)"
    name_london_stadium |-> <<"L", "o", "n", "d", "o", "n", " ", "S", "t", "a", "d", "i",
      "u", "m", " ", "-", " ", "A", "l", "l", " ", "E", "v", "e",
      "n", "t", "s", " ", "(", "G", "o", "r", "i", "l", "l", "a",
      ")">> ]

Source(n, u, l, t, k) ==
  [name |-> n, url |-> u, location |-> l, stadium_tag |-> t, kind |-> k]

SOURCES ==
  << Source("Wembley Stadium Events", Cfg.url_wembley, Cfg.loc_wembley, "wembley", "stadium"),
     Source("Arsenal Men (Home) - Emirates", Cfg.url_arsenal_men, Cfg.loc_emirates, "emirates", "mens"),
     Source("Arsenal Women (Home) - Emirates", Cfg.url_arsenal_women, Cfg.loc_emirates, "emirates", "womens"),
     Source("Emirates Stadium Events", Cfg.url_emirates, Cfg.loc_emirates, "emirates", "stadium"),
     Source("West Ham Men (Home) - London Stadium", Cfg.url_west_ham, Cfg.loc_london_stadium,
            "london-stadium", "mens"),
     Source("London Stadium Events", Cfg.url_london_stadium, Cfg.loc_london_stadium,
            "london-stadium", "stadium") >>

-----------------------------------------------------------------------------
(* sources.py: _get *)

\* range(2): the number of attempts
Attempts == 2
\* time.sleep(2)
RetryDelay == 2

\* What a server may answer with: r.text
Bodies == { Empty, <<"<", "p", ">">>, <<"4", "0", "4">> }

\* One HTTP attempt: a transport error, a timeout, a response with a
\* non-success status (which still has a text), or a successful response.
Outcomes ==
  { [kind |-> k, text |-> Empty] : k \in {"transport", "timeout"} }
    \cup { [kind |-> k, text |-> b] : k \in {"status", "ok"}, b \in Bodies }

\* (an attempt whose status is not checked)
RaisesNoStatusCheck(o) == o.kind \in {"transport", "timeout"}

\* requests.get raises on a transport error or a timeout; raise_for_status
\* raises on a non-success status.
Raises(o) == o.kind # "ok"

\* `except Exception`: the three faults are Exception subclasses
CaughtByExcept(o) == o.kind \in {"transport", "timeout", "status"}

\* `if attempt == 0: time.sleep(2); continue`
RetriesAfter(a) == a = 0

GetIdle ==
  /\ gpc = "idle" /\ gurl = NoneVal /\ attempt = 0
  /\ glog = << >> /\ gret = NoneVal

GetInit ==
  /\ gpc = "request" /\ gurl \in { SOURCES[k].url : k \in DOMAIN SOURCES }
  /\ attempt = 0 /\ glog = << >> /\ gret = NoneVal

\* try: r = requests.get(...); r.raise_for_status(); return r.text
GetAttemptOk ==
  /\ gpc = "request" /\ attempt < Attempts
  /\ \E o \in Outcomes :
       /\ ~Raises(o)
       /\ glog' = Append(glog, [ev |-> "request", url |-> gurl, out |-> o])
       /\ gret' = o.text
  /\ gpc' = "done"
  /\ UNCHANGED <<gurl, attempt>>
  /\ UNCHANGED notGet

\* except Exception as e: print(...); then sleep and `continue`, or
\* return "".  A `continue` on the last value of range(2) would end the
\* loop and the function would return None.
GetAttemptFail ==
  /\ gpc = "request" /\ attempt < Attempts
  /\ \E o \in Outcomes :
       /\ Raises(o)
       /\ LET req == [ev |-> "request", url |-> gurl, out |-> o]
              warn == [ev |-> "warn", url |-> gurl, n |-> attempt + 1, err |-> o.kind]
              slp == [ev |-> "sleep", secs |-> RetryDelay]
          IN IF ~CaughtByExcept(o)
               THEN /\ glog' = Append(glog, req)
                    /\ gpc' = "raised"
                    /\ UNCHANGED <<attempt, gret>>
             ELSE IF RetriesAfter(attempt)
               THEN /\ glog' = glog \o <<req, warn, slp>>
                    /\ attempt' = attempt + 1
                    /\ gpc' = IF attempt + 1 < Attempts THEN "request" ELSE "done"
                    /\ UNCHANGED gret
             ELSE /\ glog' = glog \o <<req, warn>>
                  /\ gret' = Empty
                  /\ gpc' = "done"
                  /\ UNCHANGED attempt
  /\ UNCHANGED gurl
  /\ UNCHANGED notGet

GetNext == GetAttemptOk \/ GetAttemptFail

-----------------------------------------------------------------------------
(* ics.py: Event *)

Event(t, s, e, l, u) ==
  [title |-> t, start |-> s, end |-> e, location |-> l, url |-> u]

-----------------------------------------------------------------------------
(* sources.py: _events_from_fixtures *)

\* how many lines a page of the model may have
MaxLines == 3

InClass(c, cls) ==
  CASE cls = "d" -> IsDigit(c)
    [] cls = "s" -> c = " "
    [] cls = "a" -> c \in Range(UpperChars) \cup Range(LowerChars)
    [] cls = ":" -> c = ":"
    [] cls = "+-" -> c \in {"+", "-"}

Atom(cls, lo, hi) == [cls |-> cls, lo |-> lo, hi |-> hi]

\* an unbounded repetition: no line is longer
Many == 99

\* ^\d{1,2}\s+[A-Za-z]{3}\s+\d{4}\s+\d{1,2}:\d{2}\s+[+-]\d{2}:\d{2}$
FIXTURES_DT_RE ==
  << Atom("d", 1, 2), Atom("s", 1, Many), Atom("a", 3, 3), Atom("s", 1, Many),
     Atom("d", 4, 4), Atom("s", 1, Many), Atom("d", 1, 2), Atom(":", 1, 1),
     Atom("d", 2, 2), Atom("s", 1, Many), Atom("+-", 1, 1), Atom("d", 2, 2),
     Atom(":", 1, 1), Atom("d", 2, 2) >>

RECURSIVE ReMatch(_, _)
\* re.match of an anchored pattern against the whole of s
ReMatch(s, pat) ==
  IF pat = << >> THEN s = << >>
  ELSE \E n \in (pat[1].lo)..Min(pat[1].hi, Len(s)) :
         /\ \A k \in 1..n : InClass(s[k], pat[1].cls)
         /\ ReMatch(SubSeq(s, n + 1, Len(s)), Tail(pat))

\* _FIXTURES_DT_RE.match(ln)
IsAnchor(ln) == ReMatch(ln, FIXTURES_DT_RE)

\* `" - " in text_lines[j]`
IsGame(ln) == Contains(ln, Kw.sep)

\* (a scan that keeps the last " - " line instead of stopping at the first)
FindGameLast(lines, i) ==
  IF \E j \in (i + 1)..(Len(lines) - 1) : IsGame(lines[j + 1])
    THEN CHOOSE j \in (i + 1)..(Len(lines) - 1) :
           /\ IsGame(lines[j + 1])
           /\ \A q \in (j + 1)..(Len(lines) - 1) : ~IsGame(lines[q + 1])
    ELSE Max(i + 1, Len(lines))

\* The inner while loop: j ends at the first index after i whose line
\* holds " - ", or at len(text_lines).
FindGame(lines, i) ==
  IF \E j \in (i + 1)..(Len(lines) - 1) : IsGame(lines[j + 1])
    THEN CHOOSE j \in (i + 1)..(Len(lines) - 1) :
           /\ IsGame(lines[j + 1])
           /\ \A q \in (i + 1)..(j - 1) : ~IsGame(lines[q + 1])
    ELSE Max(i + 1, Len(lines))

\* (a cursor that stays put when the game line is the next line)
NextCursorStuck(i, j) == IF j > i + 1 THEN j ELSE i

\* i = j if j > i else i + 1
NextCursor(i, j) == IF j > i THEN j ELSE i + 1

\* the competition named in the lines i-2 .. i+2, joined by spaces
CompFromWindow(lines, i) ==
  LET window == Lower(JoinWith(<<" ">>, Slice(lines, Max(0, i - 2), Min(Len(lines), i + 3))))
  IN IF Contains(window, Kw.champions_league) THEN Kw.ChampionsLeague
     ELSE IF Contains(window, Kw.league_cup) THEN Kw.LeagueCup
     ELSE IF Contains(window, Kw.fa_cup) THEN Kw.FaCup
     ELSE Empty

\* the first alt text that is, lowercased, a competition name
CompFromAlts(alts) ==
  LET hit(k) == Lower(alts[k]) \in {Kw.champions_league, Kw.league_cup, Kw.fa_cup}
  IN IF \E k \in DOMAIN alts : hit(k)
       THEN alts[CHOOSE k \in DOMAIN alts : hit(k) /\ \A q \in 1..(k - 1) : ~hit(q)]
       ELSE Empty

Competition(lines, alts, i) ==
  IF CompFromWindow(lines, i) # Empty THEN CompFromWindow(lines, i)
  ELSE CompFromAlts(alts)

\* title = game if not comp else f"{game} ({comp})"
FixtureTitle(game, comp) ==
  IF comp = Empty THEN game ELSE game \o Kw.open \o comp \o Kw.close

\* The events one anchor at i appends (none or one)
AnchorEvents(lines, alts, i, default_location, page_url) ==
  LET j == FindGame(lines, i)
      game == IF j < Len(lines) THEN lines[j + 1] ELSE Empty
      start_dt == DtParse(lines[i + 1])
  IN IF game # Empty /\ start_dt # ParseError
       THEN << Event(FixtureTitle(game, Competition(lines, alts, i)),
                     start_dt, PlusMinutes(start_dt, FixtureDuration),
                     default_location, page_url) >>
       ELSE << >>

\* The texts that pages of the model are made of: fixture lines, alt texts,
\* date texts and event names
Sample ==
  [
    \* "11 Jan 2026 12:00 +00:00"
    anchor1 |-> <<"1", "1", " ", "J", "a", "n", " ", "2", "0", "2", "6", " ",
      "1", "2", ":", "0", "0", " ", "+", "0", "0", ":", "0", "0">>,
    \* "1 Feb 2026 19:30 +01:00"
    anchor2 |-> <<"1", " ", "F", "e", "b", " ", "2", "0", "2", "6", " ", "1",
      "9", ":", "3", "0", " ", "+", "0", "1", ":", "0", "0">>,
    \* "31 Feb 2026 12:00 +00:00"
    anchor_bad |-> <<"3", "1", " ", "F", "e", "b", " ", "2", "0", "2", "6", " ",
      "1", "2", ":", "0", "0", " ", "+", "0", "0", ":", "0", "0">>,
    \* "1 Feb 2026 17:00 +00:00"
    early |-> <<"1", " ", "F", "e", "b", " ", "2", "0", "2", "6", " ", "1",
      "7", ":", "0", "0", " ", "+", "0", "0", ":", "0", "0">>,
    \* "11 Jan 2026"
    date_only |-> <<"1", "1", " ", "J", "a", "n", " ", "2", "0", "2", "6">>,
    \* "Arsenal - Chelsea"
    game1 |-> <<"A", "r", "s", "e", "n", "a", "l", " ", "-", " ", "C", "h",
      "e", "l", "s", "e", "a">>,
    \* "Lyon - Arsenal FA Cup"
    game2 |-> <<"L", "y", "o", "n", " ", "-", " ", "A", "r", "s", "e", "n",
      "a", "l", " ", "F", "A", " ", "C", "u", "p">>,
    \* "ignored noise"
    noise |-> <<"i", "g", "n", "o", "r", "e", "d", " ", "n", "o", "i", "s",
      "e">>,
    \* "tbc"
    tbc |-> <<"t", "b", "c">>,
    \* "logo"
    alt_logo |-> <<"l", "o", "g", "o">>,
    \* "League cup"
    alt_league_cup |-> <<"L", "e", "a", "g", "u", "e", " ", "c", "u", "p">>,
    \* "Test Gig"
    test_gig |-> <<"T", "e", "s", "t", " ", "G", "i", "g">>,
    \* "Live Tour; 2026"
    tour |-> <<"L", "i", "v", "e", " ", "T", "o", "u", "r", ";", " ", "2",
      "0", "2", "6">>,
    \* "Rugby Cup, Final"
    match |-> <<"R", "u", "g", "b", "y", " ", "C", "u", "p", ",", " ", "F",
      "i", "n", "a", "l">>,
    \* "Calendar generated (no events parsed yet)"
    placeholder |-> <<"C", "a", "l", "e", "n", "d", "a", "r", " ", "g", "e", "n",
      "e", "r", "a", "t", "e", "d", " ", "(", "n", "o", " ", "e",
      "v", "e", "n", "t", "s", " ", "p", "a", "r", "s", "e", "d",
      " ", "y", "e", "t", ")">> ]

SeqsUpTo(S, n) == UNION { [1..k -> S] : k \in 0..n }

FixIdle ==
  /\ fpc = "idle" /\ text_lines = << >> /\ img_alts = << >>
  /\ fi = 0 /\ fevents = << >> /\ fhist = << >>

FixInit ==
  /\ fpc = "scan"
  /\ text_lines \in SeqsUpTo({ Sample.anchor1, Sample.anchor2, Sample.anchor_bad, Sample.date_only,
                               Sample.game1, Sample.game2, Sample.noise }, MaxLines)
  /\ img_alts \in { << >>, <<Sample.alt_logo, Sample.alt_league_cup>> }
  /\ fi = 0 /\ fevents = << >> /\ fhist = << >>

\* one iteration of `while i < len(text_lines)` on a fixture anchor
FixAnchor ==
  /\ fpc = "scan" /\ fi < Len(text_lines)
  /\ IsAnchor(text_lines[fi + 1])
  /\ fevents' = fevents \o AnchorEvents(text_lines, img_alts, fi, SOURCES[3].location, SOURCES[3].url)
  /\ fi' = NextCursor(fi, FindGame(text_lines, fi))
  /\ fhist' = Append(fhist, fi)
  /\ UNCHANGED <<fpc, text_lines, img_alts>>
  /\ UNCHANGED notFix

\* one iteration on any other line: i += 1
FixSkip ==
  /\ fpc = "scan" /\ fi < Len(text_lines)
  /\ ~IsAnchor(text_lines[fi + 1])
  /\ fi' = fi + 1
  /\ fhist' = Append(fhist, fi)
  /\ UNCHANGED <<fpc, text_lines, img_alts, fevents>>
  /\ UNCHANGED notFix

\* the loop condition fails: return events
FixReturn ==
  /\ fpc = "scan" /\ ~(fi < Len(text_lines))
  /\ fpc' = "done"
  /\ UNCHANGED <<text_lines, img_alts, fi, fevents, fhist>>
  /\ UNCHANGED notFix

FixNext == FixAnchor \/ FixSkip \/ FixReturn

-----------------------------------------------------------------------------
(* ics.py *)

RECURSIVE ReplaceChar(_, _, _)
\* s.replace(c, rep) for a one-character c
ReplaceChar(s, c, rep) ==
  IF s = << >> THEN << >>
  ELSE (IF Head(s) = c THEN rep ELSE <<Head(s)>>) \o ReplaceChar(Tail(s), c, rep)

\* (s or "").replace("\\", "\\\\").replace("\n", "\\n").replace(",", "\\,").replace(";", "\\;")
IcsEscape(s) ==
  LET s0 == IF s = NoneVal THEN Empty ELSE s
      s1 == ReplaceChar(s0, "\\", <<"\\", "\\">>)
      s2 == ReplaceChar(s1, "\n", <<"\\", "n">>)
      s3 == ReplaceChar(s2, ",", <<"\\", ",">>)
  IN ReplaceChar(s3, ";", <<"\\", ";">>)

\* _dt_to_ics: a naive value is taken as UTC; the text names the UTC instant
DtToIcs(dt) ==
  LET dt2 == IF dt.aware THEN dt ELSE [dt EXCEPT !.aware = TRUE, !.off = 0]
  IN Dec(Instant(dt2)) \o <<"Z">>

\* datetime.isoformat(): the wall clock, then the offset if there is one
IsoFormat(dt) == Dec(dt.wall) \o (IF dt.aware THEN SignedDec(dt.off) ELSE << >>)

\* hashlib.sha1(...).hexdigest(), taken as injective: the digest of b is b
\* under a tag
Sha1Hex(b) == <<"s", "h", "a", "1", ":">> \o b

\* The literal texts of ics.py
Ics ==
  [
    \* "BEGIN:VCALENDAR"
    BEGIN_VCALENDAR |-> <<"B", "E", "G", "I", "N", ":", "V", "C", "A", "L", "E", "N",
      "D", "A", "R">>,
    \* "VERSION:2.0"
    VERSION |-> <<"V", "E", "R", "S", "I", "O", "N", ":", "2", ".", "0">>,
    \* "PRODID:-//Gorilla Carts & Kiosks//Stadium Calendars//EN"
    PRODID |-> <<"P", "R", "O", "D", "I", "D", ":", "-", "/", "/", "G", "o",
      "r", "i", "l", "l", "a", " ", "C", "a", "r", "t", "s", " ",
      "&", " ", "K", "i", "o", "s", "k", "s", "/", "/", "S", "t",
      "a", "d", "i", "u", "m", " ", "C", "a", "l", "e", "n", "d",
      "a", "r", "s", "/", "/", "E", "N">>,
    \* "CALSCALE:GREGORIAN"
    CALSCALE |-> <<"C", "A", "L", "S", "C", "A", "L", "E", ":", "G", "R", "E",
      "G", "O", "R", "I", "A", "N">>,
    \* "METHOD:PUBLISH"
    METHOD |-> <<"M", "E", "T", "H", "O", "D", ":", "P", "U", "B", "L", "I",
      "S", "H">>,
    \* "X-WR-CALNAME:"
    CALNAME |-> <<"X", "-", "W", "R", "-", "C", "A", "L", "N", "A", "M", "E",
      ":">>,
    \* "X-WR-TIMEZONE:Europe/London"
    TIMEZONE |-> <<"X", "-", "W", "R", "-", "T", "I", "M", "E", "Z", "O", "N",
      "E", ":", "E", "u", "r", "o", "p", "e", "/", "L", "o", "n",
      "d", "o", "n">>,
    \* "END:VCALENDAR"
    END_VCALENDAR |-> <<"E", "N", "D", ":", "V", "C", "A", "L", "E", "N", "D", "A",
      "R">>,
    \* "BEGIN:VEVENT"
    BEGIN_VEVENT |-> <<"B", "E", "G", "I", "N", ":", "V", "E", "V", "E", "N", "T">>,
    \* "END:VEVENT"
    END_VEVENT |-> <<"E", "N", "D", ":", "V", "E", "V", "E", "N", "T">>,
    \* "UID:"
    UID |-> <<"U", "I", "D", ":">>,
    \* "DTSTAMP:"
    DTSTAMP |-> <<"D", "T", "S", "T", "A", "M", "P", ":">>,
    \* "DTSTART:"
    DTSTART |-> <<"D", "T", "S", "T", "A", "R", "T", ":">>,
    \* "DTEND:"
    DTEND |-> <<"D", "T", "E", "N", "D", ":">>,
    \* "SUMMARY:"
    SUMMARY |-> <<"S", "U", "M", "M", "A", "R", "Y", ":">>,
    \* "LOCATION:"
    LOCATION |-> <<"L", "O", "C", "A", "T", "I", "O", "N", ":">>,
    \* "URL:"
    URL |-> <<"U", "R", "L", ":">>,
    \* "DESCRIPTION:"
    DESCRIPTION |-> <<"D", "E", "S", "C", "R", "I", "P", "T", "I", "O", "N", ":">>,
    \* "@gorilla-stadium-calendars"
    uid_suffix |-> <<"@", "g", "o", "r", "i", "l", "l", "a", "-", "s", "t", "a",
      "d", "i", "u", "m", "-", "c", "a", "l", "e", "n", "d", "a",
      "r", "s">> ]

\* the separator of the fields in the hashed text
UidBase(e) ==
  JoinWith(<<"|">>, <<e.title, IsoFormat(e.start), e.location, e.url>>)

\* Event.uid
Uid(e) == Sha1Hex(UidBase(e)) \o Ics.uid_suffix

\* (a comparison of wall clocks, whatever the offsets)
StartLessByWall(a, b) == a.wall < b.wall

\* `a < b` on datetimes: by instant when both are aware, by wall clock when
\* both are naive
StartLess(a, b) == IF a.aware THEN Instant(a) < Instant(b) ELSE a.wall < b.wall

\* comparing a naive with an aware datetime raises TypeError
Comparable(events) ==
  \A k, q \in DOMAIN events : events[k].start.aware = events[q].start.aware

RECURSIVE InsertByStart(_, _)
\* e placed after every element that is not later than it
InsertByStart(sorted, e) ==
  IF sorted = << >> THEN <<e>>
  ELSE IF StartLess(e.start, Head(sorted).start) THEN <<e>> \o sorted
  ELSE <<Head(sorted)>> \o InsertByStart(Tail(sorted), e)

RECURSIVE SortedByStart(_)
\* sorted(events, key=lambda x: x.start): stable
SortedByStart(events) ==
  IF events = << >> THEN << >>
  ELSE InsertByStart(SortedByStart(SubSeq(events, 1, Len(events) - 1)),
                     events[Len(events)])


HeaderLines(calendar_name) ==
  << Ics.BEGIN_VCALENDAR, Ics.VERSION, Ics.PRODID, Ics.CALSCALE, Ics.METHOD,
     Ics.CALNAME \o IcsEscape(calendar_name), Ics.TIMEZONE >>

\* (a block whose UID is made from the clock)
VEventLinesUidFromClock(e, now) ==
  << Ics.BEGIN_VEVENT, Ics.UID \o Sha1Hex(DtToIcs(now)) \o Ics.uid_suffix, Ics.DTSTAMP \o DtToIcs(now),
     Ics.DTSTART \o DtToIcs(e.start) >>
    \o (IF e.end # NoDt THEN << Ics.DTEND \o DtToIcs(e.end) >> ELSE << >>)
    \o << Ics.SUMMARY \o IcsEscape(e.title), Ics.LOCATION \o IcsEscape(e.location) >>
    \o (IF e.url # Empty
          THEN << Ics.URL \o IcsEscape(e.url), Ics.DESCRIPTION \o IcsEscape(e.url) >>
          ELSE << >>)
    \o << Ics.END_VEVENT >>

\* the lines of one VEVENT block
VEventLines(e, now) ==
  << Ics.BEGIN_VEVENT, Ics.UID \o Uid(e), Ics.DTSTAMP \o DtToIcs(now),
     Ics.DTSTART \o DtToIcs(e.start) >>
    \o (IF e.end # NoDt THEN << Ics.DTEND \o DtToIcs(e.end) >> ELSE << >>)
    \o << Ics.SUMMARY \o IcsEscape(e.title), Ics.LOCATION \o IcsEscape(e.location) >>
    \o (IF e.url # Empty
          THEN << Ics.URL \o IcsEscape(e.url), Ics.DESCRIPTION \o IcsEscape(e.url) >>
          ELSE << >>)
    \o << Ics.END_VEVENT >>

RECURSIVE AllVEventLines(_, _)
AllVEventLines(events, now) ==
  IF events = << >> THEN << >>
  ELSE VEventLines(Head(events), now) \o AllVEventLines(Tail(events), now)

CRLF == <<"\r", "\n">>

\* build_ics(calendar_name, events), with `now` the clock reading it takes:
\* the lines, and the text returned
BuildIcsLines(calendar_name, events, now) ==
  HeaderLines(calendar_name) \o AllVEventLines(SortedByStart(events), now) \o <<Ics.END_VCALENDAR>>

BuildIcs(calendar_name, events, now) ==
  IF ~Comparable(events) THEN [raised |-> "TypeError"]
  ELSE LET lines == BuildIcsLines(calendar_name, events, now)
       IN [lines |-> lines, text |-> JoinWith(CRLF, lines) \o CRLF]

-----------------------------------------------------------------------------
(* sources.py: _events_from_jsonld *)

RECURSIVE LStrip(_)
LStrip(s) == IF s # << >> /\ Head(s) = " " THEN LStrip(Tail(s)) ELSE s

RECURSIVE RStrip(_)
RStrip(s) ==
  IF s # << >> /\ s[Len(s)] = " " THEN RStrip(SubSeq(s, 1, Len(s) - 1)) ELSE s

\* str.strip()
Strip(s) == LStrip(RStrip(s))

\* `x or default` for a text that may be None or ""
OrElse(x, default) == IF x = NoneVal \/ x = Empty THEN default ELSE x


\* A JSON-LD object: its "@type" (a string, or a list of strings), and the
\* "name", "startDate", "endDate", "url" and "location" members (NoneVal when
\* absent; the location is a dict with a "name", or something else).
JsonObj(islist, types, name, startDate, endDate, url, locdict, locname) ==
  [isdict |-> TRUE, typelist |-> islist, types |-> types, name |-> name,
   startDate |-> startDate, endDate |-> endDate, url |-> url,
   locdict |-> locdict, locname |-> locname]

\* The candidates of one decoded script: a list gives its members, a dict
\* with a list under "@graph" gives that list, another dict gives itself,
\* anything else (a scalar; text that is empty or is not JSON) gives none.
Candidates(script) ==
  IF script.shape \in {"list", "graph", "object"} THEN script.items ELSE << >>

\* t == "Event", or "Event" in t for a list
IsEventType(obj) ==
  IF obj.typelist THEN "Event" \in Range(obj.types) ELSE obj.types = <<"Event">>

\* dtparser.parse(x) if x else None, None too when the parse raises
ParseOrNone(x) ==
  IF x = NoneVal \/ x = Empty THEN NoDt
  ELSE IF DtParse(x) = ParseError THEN NoDt ELSE DtParse(x)

\* The events one candidate appends (none or one)
CandidateEvents(obj, default_location) ==
  IF ~obj.isdict THEN << >>
  ELSE IF ~IsEventType(obj) THEN << >>
  ELSE
    LET name == Strip(OrElse(obj.name, Kw.Event))
        url == Strip(OrElse(obj.url, Empty))
        loc == IF obj.locdict THEN Strip(OrElse(obj.locname, default_location))
               ELSE default_location
        start_dt == ParseOrNone(obj.startDate)
        end_dt == ParseOrNone(obj.endDate)
    IN IF start_dt = NoDt THEN << >>
       ELSE << Event(name, start_dt, end_dt, loc, url) >>

RECURSIVE EventsOfCandidates(_, _)
EventsOfCandidates(cands, default_location) ==
  IF cands = << >> THEN << >>
  ELSE CandidateEvents(Head(cands), default_location)
         \o EventsOfCandidates(Tail(cands), default_location)

RECURSIVE EventsFromJsonld(_, _)
\* _events_from_jsonld over a page's scripts
EventsFromJsonld(scripts, default_location) ==
  IF scripts = << >> THEN << >>
  ELSE EventsOfCandidates(Candidates(Head(scripts)), default_location)
         \o EventsFromJsonld(Tail(scripts), default_location)


\* how many scripts a page of the model may have
MaxScripts == 2

O_Gig == JsonObj(FALSE, <<"Event">>, Sample.test_gig, Sample.anchor2, NoneVal, Cfg.url_wembley, FALSE, NoneVal)
O_EndsEarly == JsonObj(FALSE, <<"Event">>, Sample.tour, Sample.anchor2, Sample.early, NoneVal, TRUE, Cfg.loc_wembley)
O_Typed == JsonObj(TRUE, <<"Thing", "Event">>, NoneVal, Sample.anchor1, Sample.tbc, Empty, TRUE, NoneVal)

\* The scripts a page of the model is made of
ScriptSet ==
  { [shape |-> "invalid", items |-> << >>],
    [shape |-> "object", items |-> <<O_Gig>>],
    [shape |-> "object", items |->
        <<JsonObj(FALSE, <<"Place">>, Sample.match, Sample.anchor1, NoneVal, NoneVal, FALSE, NoneVal)>>],
    [shape |-> "list", items |-> <<O_Typed, [isdict |-> FALSE], O_EndsEarly>>],
    [shape |-> "graph", items |->
        <<JsonObj(FALSE, <<"Event">>, Sample.match, Sample.tbc, Sample.anchor1, NoneVal, FALSE, NoneVal),
          O_EndsEarly>>],
    [shape |-> "graph", items |-> <<O_Gig, O_Typed>>] }

JsonIdle == jpc = "idle" /\ jscripts = << >> /\ jk = 0 /\ jevents = << >>

JsonInit ==
  /\ jpc = "scan" /\ jscripts \in SeqsUpTo(ScriptSet, MaxScripts)
  /\ jk = 0 /\ jevents = << >>

\* one iteration of `for s in scripts` whose text decodes to candidates
JsonScript ==
  /\ jpc = "scan" /\ jk < Len(jscripts)
  /\ Candidates(jscripts[jk + 1]) # << >>
  /\ jevents' = jevents \o EventsOfCandidates(Candidates(jscripts[jk + 1]), SOURCES[1].location)
  /\ jk' = jk + 1
  /\ UNCHANGED <<jpc, jscripts>>
  /\ UNCHANGED notJson

\* one iteration on a script that is empty or does not decode: continue
JsonSkipScript ==
  /\ jpc = "scan" /\ jk < Len(jscripts)
  /\ Candidates(jscripts[jk + 1]) = << >>
  /\ jk' = jk + 1
  /\ UNCHANGED <<jpc, jscripts, jevents>>
  /\ UNCHANGED notJson

\* return events
JsonReturn ==
  /\ jpc = "scan" /\ ~(jk < Len(jscripts))
  /\ jpc' = "done"
  /\ UNCHANGED <<jscripts, jk, jevents>>
  /\ UNCHANGED notJson

JsonNext == JsonScript \/ JsonSkipScript \/ JsonReturn

-----------------------------------------------------------------------------
(* build_calendars.py *)


CalendarTags == {"wembley", "emirates", "london-stadium"}

\* CALENDAR_NAMES
CALENDAR_NAMES ==
  [tag \in CalendarTags |->
     CASE tag = "wembley" -> Cfg.name_wembley
       [] tag = "emirates" -> Cfg.name_emirates
       [] tag = "london-stadium" -> Cfg.name_london_stadium]

\* the order CALENDAR_NAMES.items() iterates in
CalendarOrder == <<"wembley", "emirates", "london-stadium">>

\* The literal texts of build_calendars.py: prefixes, keywords, placeholder
Lbl ==
  [
    \* "(M) "
    M |-> <<"(", "M", ")", " ">>,
    \* "(F) "
    F |-> <<"(", "F", ")", " ">>,
    \* "(C) "
    C |-> <<"(", "C", ")", " ">>,
    \* "(O) "
    O |-> <<"(", "O", ")", " ">>,
    \* "tour"
    tour |-> <<"t", "o", "u", "r">>,
    \* "live"
    live |-> <<"l", "i", "v", "e">>,
    \* "concert"
    concert |-> <<"c", "o", "n", "c", "e", "r", "t">>,
    \* "festival"
    festival |-> <<"f", "e", "s", "t", "i", "v", "a", "l">>,
    \* "gig"
    gig |-> <<"g", "i", "g">>,
    \* "match"
    match |-> <<"m", "a", "t", "c", "h">>,
    \* "vs"
    vs |-> <<"v", "s">>,
    \* " v "
    v |-> <<" ", "v", " ">>,
    \* "fixture"
    fixture |-> <<"f", "i", "x", "t", "u", "r", "e">>,
    \* "cup"
    cup |-> <<"c", "u", "p">>,
    \* "league"
    league |-> <<"l", "e", "a", "g", "u", "e">>,
    \* "nfl"
    nfl |-> <<"n", "f", "l">>,
    \* "boxing"
    boxing |-> <<"b", "o", "x", "i", "n", "g">>,
    \* "rugby"
    rugby |-> <<"r", "u", "g", "b", "y">>,
    \* "calendar generated (no events parsed yet)"
    placeholder |-> <<"c", "a", "l", "e", "n", "d", "a", "r", " ", "g", "e", "n",
      "e", "r", "a", "t", "e", "d", " ", "(", "n", "o", " ", "e",
      "v", "e", "n", "t", "s", " ", "p", "a", "r", "s", "e", "d",
      " ", "y", "e", "t", ")">> ]

ConcertWords == {Lbl.tour, Lbl.live, Lbl.concert, Lbl.festival, Lbl.gig}
SportWords ==
  {Lbl.match, Lbl.vs, Lbl.v, Lbl.fixture, Lbl.cup, Lbl.league, Lbl.nfl, Lbl.boxing, Lbl.rugby}

\* _prefix_for_source
PrefixForSource(source, title) ==
  IF source.kind = "mens" THEN Lbl.M \o title
  ELSE IF source.kind = "womens" THEN Lbl.F \o title
  ELSE
    LET t == Lower(OrElse(title, Empty))
        concertish == \E k \in ConcertWords : Contains(t, k)
        sportish == \E k \in SportWords : Contains(t, k)
    IN IF concertish /\ ~sportish THEN Lbl.C \o title ELSE Lbl.O \o title

\* (a filter that matches the title as written, without lowercasing it)
ShouldIncludeEventCaseSensitive(source, title) ==
  ~(/\ source.kind = "womens" /\ source.stadium_tag = "emirates"
    /\ \/ Contains(title, Kw.champions_league)
       \/ Contains(title, Kw.fa_cup)
       \/ Contains(title, Kw.league_cup))

\* _should_include_event
ShouldIncludeEvent(source, title) ==
  IF source.kind = "womens" /\ source.stadium_tag = "emirates"
    THEN LET t == Lower(OrElse(title, Empty))
         IN IF Contains(t, Kw.champions_league) THEN FALSE
            ELSE IF Contains(t, Kw.fa_cup) THEN FALSE
            ELSE IF Contains(t, Kw.league_cup) THEN FALSE
            ELSE TRUE
    ELSE TRUE


\* `"calendar generated (no events parsed yet)" not in (e.title or "").lower()`
NotPlaceholder(e) == ~Contains(Lower(OrElse(e.title, Empty)), Lbl.placeholder)

\* @dataclass(frozen=True): assigning to a field of an Event raises
EventIsFrozen == TRUE

\* the parameters build_ics declares, and the keywords build() passes it
BuildIcsParams == {"calendar_name", "events"}
BuildIcsCallKeywords == {"calendar_name", "events", "generated_at"}

\* A page as _get returns it: its text, and what BeautifulSoup finds in it
Page(html, lines, alts, scripts) ==
  [html |-> html, lines |-> lines, alts |-> alts, scripts |-> scripts]

PageText == <<"<", "p", ">">>

\* The pages a source of the model may serve
PagesOf(source) ==
  IF Contains(source.url, Kw.fixtur_es)
  THEN { Page(PageText, <<Sample.anchor1, Sample.game1, Sample.noise>>, << >>, << >>),
         Page(PageText, <<Sample.anchor2, Sample.game2>>, <<Sample.alt_logo>>, << >>) }
  ELSE { Page(PageText, << >>, << >>, <<[shape |-> "object", items |-> <<O_Gig>>]>>),
         Page(PageText, << >>, << >>, <<[shape |-> "invalid", items |-> << >>]>>) }

RECURSIVE ScanFixtures(_, _, _, _, _)
\* the while loop of _events_from_fixtures, from cursor i
ScanFixtures(lines, alts, i, default_location, page_url) ==
  IF ~(i < Len(lines)) THEN << >>
  ELSE IF IsAnchor(lines[i + 1])
    THEN AnchorEvents(lines, alts, i, default_location, page_url)
           \o ScanFixtures(lines, alts, NextCursor(i, FindGame(lines, i)),
                           default_location, page_url)
  ELSE ScanFixtures(lines, alts, i + 1, default_location, page_url)

\* _events_from_fixtures
EventsFromFixtures(page, default_location, page_url) ==
  ScanFixtures(page.lines, page.alts, 0, default_location, page_url)

\* _fetch_one, given what _get returned
FetchOne(source, page) ==
  IF page.html = Empty THEN << >>
  ELSE IF Contains(source.url, Kw.fixtur_es)
    THEN EventsFromFixtures(page, source.location, source.url)
  ELSE EventsFromJsonld(page.scripts, source.location)

\* events_by_stadium[tag] with its placeholders removed
StripPlaceholders(b) == [tag \in DOMAIN b |-> SelectSeq(b[tag], NotPlaceholder)]

NoBuckets == [tag \in CalendarTags |-> << >>]
NoFiles == [tag \in CalendarTags |-> NoneVal]

BuildIdle ==
  /\ bpc = "idle" /\ bexc = "none" /\ bs = 0 /\ be = 0
  /\ fetched = << >> /\ buckets = NoBuckets /\ outfiles = NoFiles

BuildInit ==
  /\ bpc = "fetch" /\ bexc = "none" /\ bs = 0 /\ be = 0
  /\ fetched = << >> /\ buckets = NoBuckets /\ outfiles = NoFiles

\* fetch_events: result[s] = _fetch_one(s) for the next source, with `page`
\* what _get returned for it
FetchStep(page) ==
  /\ fetched' = Append(fetched, FetchOne(SOURCES[bs + 1], page))
  /\ IF bs + 1 < Len(SOURCES)
       THEN bs' = bs + 1 /\ bpc' = "fetch"
       ELSE bs' = 0 /\ bpc' = "assemble"
  /\ UNCHANGED <<bexc, be, buckets, outfiles>>
  /\ UNCHANGED notBuild

\* a source whose page could not be fetched
\* _get's answer when both attempts fail is the empty text
BuildFetchFailed == bpc = "fetch" /\ FetchStep(Page(Empty, << >>, << >>, << >>))

\* a source whose page was fetched
BuildFetchPage ==
  /\ bpc = "fetch"
  /\ \E page \in PagesOf(SOURCES[bs + 1]) : FetchStep(page)

\* `for e in events`: an event the filter rejects (continue)
BuildDropEvent ==
  /\ bpc = "assemble"
  /\ SOURCES[bs + 1].stadium_tag \in DOMAIN buckets
  /\ be < Len(fetched[bs + 1])
  /\ ~ShouldIncludeEvent(SOURCES[bs + 1], fetched[bs + 1][be + 1].title)
  /\ be' = be + 1
  /\ UNCHANGED <<bpc, bexc, bs, fetched, buckets, outfiles>>
  /\ UNCHANGED notBuild

\* `for e in events`: an event the filter keeps.  e.title = ... is an
\* assignment to a field of a dataclass instance.
BuildTakeEvent ==
  /\ bpc = "assemble"
  /\ SOURCES[bs + 1].stadium_tag \in DOMAIN buckets
  /\ be < Len(fetched[bs + 1])
  /\ LET source == SOURCES[bs + 1]
         e == fetched[bs + 1][be + 1]
         titled == [e EXCEPT !.title = PrefixForSource(source, e.title)]
         placed == IF titled.location = Empty
                     THEN [titled EXCEPT !.location = source.location]
                     ELSE titled
     IN /\ ShouldIncludeEvent(source, e.title)
        /\ IF EventIsFrozen
             THEN /\ bpc' = "raised" /\ bexc' = "FrozenInstanceError"
                  /\ UNCHANGED <<be, buckets>>
             ELSE /\ buckets' = [buckets EXCEPT ![source.stadium_tag] = Append(@, placed)]
                  /\ be' = be + 1
                  /\ UNCHANGED <<bpc, bexc>>
  /\ UNCHANGED <<bs, fetched, outfiles>>
  /\ UNCHANGED notBuild

\* the events of a source are exhausted (or its tag is no calendar's):
\* on to the next source, or to the placeholder removal after the last
BuildNextSource ==
  /\ bpc = "assemble"
  /\ \/ SOURCES[bs + 1].stadium_tag \notin DOMAIN buckets
     \/ ~(be < Len(fetched[bs + 1]))
  /\ IF bs + 1 < Len(SOURCES)
       THEN bs' = bs + 1 /\ UNCHANGED <<bpc, buckets>>
       ELSE bs' = 0 /\ bpc' = "write" /\ buckets' = StripPlaceholders(buckets)
  /\ be' = 0
  /\ UNCHANGED <<bexc, fetched, outfiles>>
  /\ UNCHANGED notBuild

\* one iteration of `for tag, cal_name in CALENDAR_NAMES.items()`: sort the
\* bucket, call build_ics(calendar_name=, events=, generated_at=), write
BuildWrite ==
  /\ bpc = "write" /\ bs < Len(CalendarOrder)
  /\ LET tag == CalendarOrder[bs + 1]
         events == buckets[tag]
         doc == BuildIcs(CALENDAR_NAMES[tag], SortedByStart(events), Aware(clock, 0))
     IN IF ~Comparable(events) \/ ~(BuildIcsCallKeywords \subseteq BuildIcsParams)
          THEN /\ bpc' = "raised" /\ bexc' = "TypeError"
               /\ UNCHANGED <<bs, outfiles>>
          ELSE /\ outfiles' = [outfiles EXCEPT ![tag] = doc.text]
               /\ bs' = bs + 1
               /\ bpc' = IF bs + 1 < Len(CalendarOrder) THEN "write" ELSE "done"
               /\ UNCHANGED bexc
  /\ UNCHANGED <<be, fetched, buckets>>
  /\ UNCHANGED notBuild

BuildNext ==
  \/ BuildFetchFailed \/ BuildFetchPage \/ BuildDropEvent
  \/ BuildTakeEvent \/ BuildNextSource \/ BuildWrite

-----------------------------------------------------------------------------
(* _should_include_event applied to a source and a title *)

\* how many pieces a title of the model is made of
MaxPieces == 3

RECURSIVE Concat(_)
Concat(parts) == IF parts = << >> THEN << >> ELSE Head(parts) \o Concat(Tail(parts))

Titles ==
  { Concat(ps) :
      ps \in SeqsUpTo({ Sample.game1, Kw.open, Kw.ChampionsLeague, Kw.FaCup,
                        Lbl.league, <<" ">>, Lbl.cup }, MaxPieces) }

\* The configured sources, and three that are not configured: a women's
\* fixture list of another stadium, and sources with no kind
FilterSources ==
  Range(SOURCES) \cup
    { Source("West Ham Women (Home)", Cfg.url_west_ham, Cfg.loc_london_stadium, "london-stadium", "womens"),
      Source("Emirates (no kind)", Cfg.url_emirates, Cfg.loc_emirates, "emirates", ""),
      Source("Arsenal Women (Home) - Wembley", Cfg.url_arsenal_women, Cfg.loc_wembley, "wembley", "womens") }

FilterIdle == qpc = "idle" /\ qsource = SOURCES[1] /\ qtitle = Empty /\ qres = TRUE

FilterInit ==
  /\ qpc = "call" /\ qsource \in FilterSources /\ qtitle \in Titles /\ qres = TRUE

\* _should_include_event(source, e.title)
FilterCall ==
  /\ qpc = "call"
  /\ qres' = ShouldIncludeEvent(qsource, qtitle)
  /\ qpc' = "done"
  /\ UNCHANGED <<qsource, qtitle>>
  /\ UNCHANGED notFilter

FilterNext == FilterCall

-----------------------------------------------------------------------------
(* Event.uid read on two events *)

UidEvents ==
  { Event(t, s, NoDt, l, u) :
      t \in { <<"a">>, <<"b">> },
      s \in { DtParse(Sample.anchor1), DtParse(Sample.anchor2) },
      l \in { Empty, <<"b">>, <<"b", "|", "c">> },
      u \in { Empty, <<"c">>, <<"c", "|", "d">>, <<"d">> } }

UidIdle ==
  /\ upc = "idle" /\ ue1 = Event(Empty, DtParse(Sample.anchor1), NoDt, Empty, Empty)
  /\ ue2 = ue1 /\ uid1 = NoneVal /\ uid2 = NoneVal

UidInit ==
  /\ upc = "read" /\ ue1 \in UidEvents /\ ue2 \in UidEvents
  /\ uid1 = NoneVal /\ uid2 = NoneVal

\* e1.uid, e2.uid
UidRead ==
  /\ upc = "read"
  /\ uid1' = Uid(ue1) /\ uid2' = Uid(ue2)
  /\ upc' = "done"
  /\ UNCHANGED <<ue1, ue2>>
  /\ UNCHANGED notUid

UidNext == UidRead

-----------------------------------------------------------------------------
(* build_ics called twice on the same arguments *)

\* how many events a list of the model may have
MaxEvents == 3
\* how far the clock may advance during a run
MaxTicks == 2

ClockStart == DtParse(Sample.anchor1).wall

T1 == DtParse(Sample.anchor2).wall

\* Events of the model: E_B and E_C start at one instant under different
\* offsets, E_D starts after them with an earlier wall clock; one event is
\* naive.
E_B == Event(Sample.tour, Aware(T1, 60), Aware(T1 + 150, 60), Cfg.loc_emirates, Empty)
E_C == Event(Sample.match, Aware(T1 - 60, 0), NoDt, Empty, Cfg.url_emirates)
E_D == Event(Kw.Event, Aware(T1 - 120, 0 - 90), Aware(T1 - 60, 0 - 90), Cfg.loc_wembley, Empty)

IcsEvents ==
  { Event(Sample.test_gig, Aware(T1 - 30, 0), NoDt, Cfg.loc_wembley, Cfg.url_wembley),
    E_B, E_C, E_D,
    Event(Sample.test_gig, Naive(T1), NoDt, Cfg.loc_london_stadium, Empty) }

NoDoc == [none |-> TRUE]

IcsIdle ==
  /\ ipc = "idle" /\ iname = Empty /\ ievents = << >> /\ clock = ClockStart
  /\ iout1 = NoDoc /\ iout2 = NoDoc

IcsInit ==
  /\ ipc = "first" /\ iname \in {Cfg.name_wembley}
  /\ ievents \in SeqsUpTo(IcsEvents, MaxEvents)
  /\ clock = ClockStart /\ iout1 = NoDoc /\ iout2 = NoDoc

\* time passes
IcsTick ==
  /\ ipc \in {"first", "second"} /\ clock < ClockStart + MaxTicks
  /\ clock' = clock + 1
  /\ UNCHANGED <<ipc, iname, ievents, iout1, iout2>>
  /\ UNCHANGED notIcsButClock

\* build_ics(name, events), reading the clock
IcsFirstCall ==
  /\ ipc = "first"
  /\ iout1' = BuildIcs(iname, ievents, Aware(clock, 0))
  /\ ipc' = "second"
  /\ UNCHANGED <<iname, ievents, clock, iout2>>
  /\ UNCHANGED notIcsButClock

\* build_ics(name, events) again
IcsSecondCall ==
  /\ ipc = "second"
  /\ iout2' = BuildIcs(iname, ievents, Aware(clock, 0))
  /\ ipc' = "done"
  /\ UNCHANGED <<iname, ievents, clock, iout1>>
  /\ UNCHANGED notIcsButClock

IcsNext == IcsTick \/ IcsFirstCall \/ IcsSecondCall

-----------------------------------------------------------------------------
(* Specifications: one per operation, the other operations at rest *)

InitGet ==
  GetInit /\ FixIdle /\ JsonIdle /\ BuildIdle /\ FilterIdle /\ UidIdle /\ IcsIdle
SpecGet == InitGet /\ [][GetNext]_vars

InitFixtures ==
  FixInit /\ GetIdle /\ JsonIdle /\ BuildIdle /\ FilterIdle /\ UidIdle /\ IcsIdle
SpecFixtures == InitFixtures /\ [][FixNext]_vars

InitJsonld ==
  JsonInit /\ GetIdle /\ FixIdle /\ BuildIdle /\ FilterIdle /\ UidIdle /\ IcsIdle
SpecJsonld == InitJsonld /\ [][JsonNext]_vars

InitBuild ==
  BuildInit /\ GetIdle /\ FixIdle /\ JsonIdle /\ FilterIdle /\ UidIdle /\ IcsIdle
SpecBuild == InitBuild /\ [][BuildNext]_vars

InitFilter ==
  FilterInit /\ GetIdle /\ FixIdle /\ JsonIdle /\ BuildIdle /\ UidIdle /\ IcsIdle
SpecFilter == InitFilter /\ [][FilterNext]_vars

InitUid ==
  UidInit /\ GetIdle /\ FixIdle /\ JsonIdle /\ BuildIdle /\ FilterIdle /\ IcsIdle
SpecUid == InitUid /\ [][UidNext]_vars

InitIcs ==
  IcsInit /\ GetIdle /\ FixIdle /\ JsonIdle /\ BuildIdle /\ FilterIdle /\ UidIdle
SpecIcs == InitIcs /\ [][IcsNext]_vars

-----------------------------------------------------------------------------
(* Properties *)

IsPrefix(p, s) == Len(p) <= Len(s) /\ SubSeq(s, 1, Len(p)) = p

\* ---- _get ----

GetRequestsAt == { k \in DOMAIN glog : glog[k].ev = "request" }
GetWarnsAt == { k \in DOMAIN glog : glog[k].ev = "warn" }
GetSleepsAt == { k \in DOMAIN glog : glog[k].ev = "sleep" }
GetSucceededAt == { k \in GetRequestsAt : glog[k].out.kind = "ok" }
GetFailedAt == GetRequestsAt \ GetSucceededAt

\* C3: _get never lets a fault out; it issues at most two requests, returns
\* the text of the first successful one, sleeps the fixed delay only between
\* a failed first attempt and the second attempt, returns "" exactly when
\* both attempts fail (or the successful text is empty), and prints one
\* warning per failed attempt.
C3_GetNeverPropagates ==
  /\ gpc # "raised"
  /\ Cardinality(GetRequestsAt) <= 2
  /\ Cardinality(GetWarnsAt) = Cardinality(GetFailedAt)
  /\ \A k \in GetFailedAt : glog[k + 1].ev = "warn" /\ glog[k + 1].err = glog[k].out.kind
  /\ Cardinality(GetSleepsAt) <= 1
  /\ \A k \in GetSleepsAt :
       /\ glog[k].secs = 2
       /\ Cardinality({ q \in GetRequestsAt : q < k }) = 1
       /\ { q \in GetRequestsAt : q < k } \subseteq GetFailedAt
  /\ \A k \in GetRequestsAt : k > 1 => glog[k - 1].ev = "sleep"
  /\ gpc = "done" =>
       /\ GetSucceededAt # {} =>
            /\ Cardinality(GetSucceededAt) = 1
            /\ \A k \in GetSucceededAt :
                 gret = glog[k].out.text /\ \A q \in GetRequestsAt : q <= k
       /\ GetSucceededAt = {} => gret = Empty /\ Cardinality(GetFailedAt) = 2
       /\ gret = Empty <=>
            \/ Cardinality(GetFailedAt) = 2
            \/ \E k \in GetSucceededAt : glog[k].out.text = Empty

\* a call whose first attempt got a non-success status and whose retry succeeded
C3_Witness ==
  /\ gpc = "done" /\ Cardinality(GetRequestsAt) = 2 /\ gret # Empty
  /\ glog[1].out.kind = "status" /\ glog[1].out.text # Empty

\* ---- _events_from_fixtures ----

\* the index of the nearest line after v that holds " - " (0-based), if any
HasLaterGame(v) == \E j \in (v + 1)..(Len(text_lines) - 1) : Contains(text_lines[j + 1], Kw.sep)
NearestGame(v) ==
  CHOOSE j \in (v + 1)..(Len(text_lines) - 1) :
    /\ Contains(text_lines[j + 1], Kw.sep)
    /\ \A q \in (v + 1)..(j - 1) : ~Contains(text_lines[q + 1], Kw.sep)

CompetitionWords == {Kw.champions_league, Kw.league_cup, Kw.fa_cup}

\* a competition is identified for the anchor at v: a keyword in the lines
\* v-2 .. v+2 joined by spaces, or an alt text that is a competition's name
CompetitionIdentified(v) ==
  \/ \E w \in CompetitionWords :
       Contains(Lower(JoinWith(<<" ">>,
                  [k \in 1..(Min(Len(text_lines), v + 3) - Max(0, v - 2)) |->
                     text_lines[Max(0, v - 2) + k]])), w)
  \/ \E k \in DOMAIN img_alts : Lower(img_alts[k]) \in CompetitionWords

\* what the claim says of the event emitted for the anchor at v
IsFixtureEventOf(e, v) ==
  LET game == text_lines[NearestGame(v) + 1]
  IN /\ IF CompetitionIdentified(v)
          THEN \E c \in {Kw.ChampionsLeague, Kw.LeagueCup, Kw.FaCup} \cup Range(img_alts) :
                 /\ Lower(c) \in CompetitionWords
                 /\ e.title = game \o Kw.open \o c \o Kw.close
          ELSE e.title = game
     /\ e.start = DtParse(text_lines[v + 1])
     /\ e.end.aware /\ e.end.off = e.start.off /\ e.end.wall = e.start.wall + 150
     /\ e.location = SOURCES[3].location /\ e.url = SOURCES[3].url

\* the visited anchors that have a later game line, in the order visited
VisitedAnchorsWithGame ==
  SelectSeq(fhist, LAMBDA v : IsAnchor(text_lines[v + 1]) /\ HasLaterGame(v))
VisitedParsedAnchorsWithGame ==
  SelectSeq(VisitedAnchorsWithGame, LAMBDA v : DtParse(text_lines[v + 1]) # ParseError)

\* 2026-01-11T12:00Z in minutes since 2000-01-01 (9507 days)
ExampleStart == ((9507 * 24) + 12) * 60

FixtureExample ==
  (text_lines = <<Sample.anchor1, Sample.game1, Sample.noise>> /\ img_alts = << >>) =>
    fevents = << Event(Sample.game1, Aware(ExampleStart, 0), Aware(ExampleStart + 150, 0),
                       SOURCES[3].location, SOURCES[3].url) >>

\* C6 (as claimed): every visited anchor that has a later " - " line yields
\* exactly one event, titled by the nearest such line, starting at the
\* anchor's instant and ending 2h30m later.
C6_OneEventPerAnchor ==
  fpc = "done" =>
    /\ Len(fevents) = Len(VisitedAnchorsWithGame)
    /\ \A k \in DOMAIN fevents : IsFixtureEventOf(fevents[k], VisitedAnchorsWithGame[k])
    /\ FixtureExample

\* C6 (amended): every visited anchor that has a later " - " line and whose
\* text parses as a date yields exactly one event, titled by the nearest
\* such line (with the competition appended only when one is identified),
\* starting at the anchor's instant, ending 2h30m later, at the fallback
\* location and with the page URL; no other line yields an event.
C6_OneEventPerParsedAnchor ==
  fpc = "done" =>
    /\ Len(fevents) = Len(VisitedParsedAnchorsWithGame)
    /\ \A k \in DOMAIN fevents :
         IsFixtureEventOf(fevents[k], VisitedParsedAnchorsWithGame[k])
    /\ FixtureExample

\* the worked example, scanned to the end
C6_Witness ==
  /\ fpc = "done" /\ text_lines = <<Sample.anchor1, Sample.game1, Sample.noise>> /\ img_alts = << >>
  /\ Len(fevents) = 1 /\ fevents[1].title = Sample.game1

FixScanning == fpc = "scan" /\ fi < Len(text_lines)

\* C10 (as claimed): every iteration moves the cursor forward: past the
\* game line when the anchor has one, by one line when it has none; an
\* anchor without a game line emits nothing.
C10_CursorPastGameOrByOne ==
  [][ FixScanning =>
        /\ fi' > fi
        /\ (IsAnchor(text_lines[fi + 1]) /\ HasLaterGame(fi)) => fi' = NearestGame(fi) + 1
        /\ (IsAnchor(text_lines[fi + 1]) /\ ~HasLaterGame(fi)) =>
             (fi' = fi + 1 /\ fevents' = fevents) ]_vars

\* C10 (amended): every iteration moves the cursor strictly forward and
\* never beyond the end: to the game line when the anchor has one, to the
\* end of the lines when it has none (emitting nothing), by one line on a
\* line that is no anchor; so the scan makes at most len(text_lines)
\* iterations and returns with the cursor at the end.
C10_CursorAdvances ==
  /\ [](/\ fi <= Len(text_lines) /\ Len(fhist) <= fi
        /\ fpc = "done" => fi = Len(text_lines))
  /\ [][ FixScanning =>
           /\ fi' > fi /\ fi' <= Len(text_lines)
           /\ (IsAnchor(text_lines[fi + 1]) /\ HasLaterGame(fi)) => fi' = NearestGame(fi)
           /\ (IsAnchor(text_lines[fi + 1]) /\ ~HasLaterGame(fi)) =>
                (fi' = Len(text_lines) /\ fevents' = fevents)
           /\ ~IsAnchor(text_lines[fi + 1]) => fi' = fi + 1 ]_vars

\* an anchor followed by two lines without " - ": one iteration, no event
C10_Witness ==
  /\ fpc = "done" /\ Len(text_lines) = 3 /\ IsAnchor(text_lines[1])
  /\ fhist = <<0>> /\ fevents = << >>

\* ---- build_ics ----

IsDoc(out) == "lines" \in DOMAIN out

\* the positions of the BEGIN:VEVENT lines of a document, in order
BlockCount(lines) == Cardinality({ k \in DOMAIN lines : lines[k] = Ics.BEGIN_VEVENT })
BlockAt(lines, n) ==
  CHOOSE k \in DOMAIN lines :
    /\ lines[k] = Ics.BEGIN_VEVENT
    /\ Cardinality({ q \in 1..(k - 1) : lines[q] = Ics.BEGIN_VEVENT }) = n - 1

\* the instant a DTSTART line names
DtStartOf(line) == Num(SubSeq(line, Len(Ics.DTSTART) + 1, Len(line) - 1))

\* the instant an event starts at (a naive start is read as UTC)
StartInstant(e) == IF e.start.aware THEN e.start.wall - e.start.off ELSE e.start.wall

Bijections(n) ==
  { p \in [1..n -> 1..n] : \A a, b \in 1..n : a # b => p[a] # p[b] }

\* the blocks of `lines` are the events of `events`, ascending by start
\* instant, equal instants in their input order
StableByStart(lines, events) ==
  LET n == Len(events)
  IN /\ BlockCount(lines) = n
     /\ \A k \in 1..n :
          LET at == BlockAt(lines, k)
          IN /\ IsPrefix(Ics.UID, lines[at + 1])
             /\ IsPrefix(Ics.DTSTART, lines[at + 3])
     /\ \A k \in 1..(n - 1) :
          DtStartOf(lines[BlockAt(lines, k) + 3]) <= DtStartOf(lines[BlockAt(lines, k + 1) + 3])
     /\ \E p \in Bijections(n) :
          /\ \A k \in 1..n :
               /\ lines[BlockAt(lines, k) + 1] = Ics.UID \o Uid(events[p[k]])
               /\ DtStartOf(lines[BlockAt(lines, k) + 3]) = StartInstant(events[p[k]])
          /\ \A k, q \in 1..n :
               (k < q /\ StartInstant(events[p[k]]) = StartInstant(events[p[q]]))
                 => p[k] < p[q]

\* C4: in every document build_ics produces, the VEVENT blocks are in
\* non-decreasing order of start instant, and events that start at the same
\* instant keep their order in the input list.
C4_BlocksSortedStable ==
  /\ IsDoc(iout1) => StableByStart(iout1.lines, ievents)
  /\ IsDoc(iout2) => StableByStart(iout2.lines, ievents)

\* a list given latest first, with two events at one instant
C4_Witness ==
  /\ ipc = "done" /\ ievents = <<E_D, E_C, E_B>> /\ IsDoc(iout2)
  /\ iout2.lines[BlockAt(iout2.lines, 1) + 1] = Ics.UID \o Uid(E_C)
  /\ iout2.lines[BlockAt(iout2.lines, 2) + 1] = Ics.UID \o Uid(E_B)

\* C8: two calls of build_ics on the same name and events return the same
\* lines, except for the DTSTAMP lines.
C8_SameButDtstamp ==
  ipc = "done" =>
    /\ IsDoc(iout1) <=> IsDoc(iout2)
    /\ IsDoc(iout1) =>
         /\ Len(iout1.lines) = Len(iout2.lines)
         /\ \A k \in DOMAIN iout1.lines :
              \/ iout1.lines[k] = iout2.lines[k]
              \/ IsPrefix(Ics.DTSTAMP, iout1.lines[k]) /\ IsPrefix(Ics.DTSTAMP, iout2.lines[k])

\* two calls at different times, whose documents differ
C8_Witness ==
  /\ ipc = "done" /\ IsDoc(iout1) /\ IsDoc(iout2) /\ Len(ievents) >= 2
  /\ iout1.text # iout2.text

\* ---- _should_include_event ----

\* the title holds the word, in any case
HoldsWord(title, w) ==
  \E k \in 1..(Len(title) - Len(w) + 1) :
    \A q \in 1..Len(w) : LowerChar(title[k + q - 1]) = w[q]

VenueMismatched(source) == source.kind = "womens" /\ source.stadium_tag = "emirates"

\* C7: _should_include_event is False exactly for the women's fixture
\* source of the Emirates and a title that holds "champions league", "fa
\* cup" or "league cup" in any case; everything else is kept.
C7_FilterExactlyCups ==
  qpc = "done" =>
    (qres = FALSE <=>
       /\ VenueMismatched(qsource)
       /\ \E w \in {Kw.champions_league, Kw.fa_cup, Kw.league_cup} : HoldsWord(qtitle, w))

\* a tagged Champions League fixture of Arsenal Women, dropped
C7_Witness ==
  /\ qpc = "done" /\ qres = FALSE
  /\ qtitle = Sample.game1 \o Kw.open \o Kw.ChampionsLeague

\* ---- build ----

BuildEnded == bpc \in {"done", "raised"}

WellFormedDoc(text) ==
  /\ text # NoneVal
  /\ IsPrefix(JoinWith(CRLF, <<Ics.BEGIN_VCALENDAR, Ics.VERSION, Ics.PRODID, Ics.CALSCALE, Ics.METHOD>>), text)
  /\ Contains(text, CRLF \o Ics.TIMEZONE \o CRLF)
  /\ SubSeq(text, Len(text) - Len(Ics.END_VCALENDAR) - 1, Len(text)) = Ics.END_VCALENDAR \o CRLF

\* C1: build() writes one well-formed document for every calendar key; in
\* particular it completes and writes all three when no source yields an
\* event.
C1_EveryCalendarWritten ==
  (BuildEnded /\ \A k \in DOMAIN fetched : fetched[k] = << >>) =>
    /\ bpc = "done"
    /\ \A tag \in CalendarTags : WellFormedDoc(outfiles[tag])

\* the events of the sources before `s`, and of source s before position
\* `e`, that the filter keeps: those the assembly loop has handled
Handled(s, e) ==
  /\ ShouldIncludeEvent(SOURCES[s + 1], fetched[s + 1][e + 1].title)
  /\ \/ bpc \in {"write", "done"}
     \/ bpc \in {"assemble", "raised"} /\ (s < bs \/ (s = bs /\ e < be))

\* C2: the assembly loop gives every kept event of a known calendar its
\* prefixed title and, when it has none, its source's location, appends it
\* to the bucket of the source's tag, and does not raise.
C2_AssemblyRewritesAndAppends ==
  /\ ~(bpc = "raised" /\ bexc = "FrozenInstanceError")
  /\ bpc \in {"assemble", "raised"} =>
       \A s \in 0..(Len(fetched) - 1) : \A e \in 0..(Len(fetched[s + 1]) - 1) :
         Handled(s, e) =>
           \E k \in DOMAIN buckets[SOURCES[s + 1].stadium_tag] :
             LET b == buckets[SOURCES[s + 1].stadium_tag][k]
                 o == fetched[s + 1][e + 1]
             IN /\ b.title = PrefixForSource(SOURCES[s + 1], o.title)
                /\ b.location = IF o.location = Empty THEN SOURCES[s + 1].location
                                ELSE o.location

\* ---- Event.uid ----

SameTuple(a, b) ==
  /\ a.title = b.title /\ IsoFormat(a.start) = IsoFormat(b.start)
  /\ a.location = b.location /\ a.url = b.url

\* C5: two events have the same uid exactly when their (title, start ISO
\* text, location, url) are the same, and every uid ends with the fixed
\* suffix.
C5_UidInjective ==
  upc = "done" =>
    /\ (uid1 = uid2) <=> SameTuple(ue1, ue2)
    /\ SubSeq(uid1, Len(uid1) - Len(Ics.uid_suffix) + 1, Len(uid1)) = Ics.uid_suffix

\* ---- _events_from_jsonld ----

\* C9: every event an extractor produces has no end, or an end that is not
\* earlier than its start.
C9_EndNotBeforeStart ==
  \A k \in DOMAIN jevents :
    \/ jevents[k].end = NoDt
    \/ ~(Instant(jevents[k].end) < Instant(jevents[k].start))

=============================================================================
